---- MODULE Spec2Model ----
(***************************************************************************)
(* A model of mcp_study.py: the cached model provider (get_gemini_model),  *)
(* the retry-once invoker (invoke_model_with_retry), the content           *)
(* generators and the subject/module store on disk.                        *)
(*                                                                         *)
(* Every handler is one atomic action (the program is single threaded and  *)
(* synchronous).  What the outside world decides - the credential          *)
(* configuration, whether a send succeeds, what the hosted model replies - *)
(* is an input of the action, drawn with \E from a small set.              *)
(***************************************************************************)
EXTENDS Integers, Sequences, FiniteSets, TLC

VARIABLES
    cache,      \* st.session_state['gemini_model']: 0 = key absent, n > 0 = the n-th handle built
    nextId,     \* identity the next constructed ChatGoogleGenerativeAI object gets
    disk,       \* the subjects/ directory tree
    call,       \* the handler call that has just returned (or raised), with its inputs
    reply       \* the text the hosted model answers a concept-map prompt with

vars == <<cache, nextId, disk, call, reply>>

(***************************************************************************)
(* Bounds of the model.                                                    *)
(***************************************************************************)
MaxHandles == 3     \* handles constructed in one run
MaxReplyLen == 6    \* tokens in a model reply that generate_visual_map scans
MaxIndexLen == 9    \* tokens index.html may grow to

(***************************************************************************)
(* Values.                                                                 *)
(***************************************************************************)
\* The pydantic classes a handle can be bound to; "None" is no schema.
Schemas == {"None", "ModuleTopics", "GeneratedCode"}

\* A model handle as a caller holds it: the cached object's identity and the
\* schema with_structured_output bound it to.  Python's None is id 0.
None == [id |-> 0, schema |-> "None"]
View(h, som) == [id |-> h, schema |-> som]

\* os.environ['GOOGLE_API_KEY'] and st.secrets as the provider may find them.
Environs == {"unset", "empty", "set"}
Secrets == {"nofile", "nokey", "key"}
Configurations == [environ : Environs, secrets : Secrets]

\* One configuration for each way the key lookup can end: a key, no key, no
\* secrets file to look in.
SomeConfigurations ==
    { [environ |-> "empty", secrets |-> "key"],
      [environ |-> "unset", secrets |-> "nokey"],
      [environ |-> "unset", secrets |-> "nofile"] }

NoError == "none"
NoResponse == [type |-> "none", topics |-> <<>>, content |-> <<>>]
NoCall ==
    [op |-> "none", args |-> <<>>, outcome |-> "ok", error |-> NoError,
     apiKey |-> "unread", before |-> 0, model |-> None, sends |-> <<>>,
     gets |-> <<>>, response |-> NoResponse, text |-> <<>>, structure |-> <<>>]

(***************************************************************************)
(* get_gemini_model                                                        *)
(***************************************************************************)
\* Line 35: os.environ.get('GOOGLE_API_KEY') or st.secrets.get("GOOGLE_API_KEY").
\* An unset or empty variable falls through to the secrets store; st.secrets
\* raises when there is no secrets file and yields None for a missing key.
ApiKey(environ, secrets) ==
    IF environ = "set" THEN "key"
    ELSE IF secrets = "nofile" THEN "raise"
    ELSE IF secrets = "key" THEN "key"
    ELSE "None"

\* Lines 34-39: the try block.  The constructor validates the key it is given
\* and raises on None; every exception of the block ends in return None.
ConstructionFails(key) == key # "key"

\* What one call of get_gemini_model comes to: the cache and the identity
\* counter afterwards, the handle returned (None when construction failed),
\* whether a handle was built and whether an exception left the function.
Got(c, n, model, constructed, raised) ==
    [cache |-> c, nextId |-> n, model |-> model, constructed |-> constructed,
     raised |-> raised]

\* get_gemini_model without lines 31-32: force_reinit deletes nothing.
GetModelIgnoresForce(c, n, key, som, force) ==
    IF c = 0
    THEN IF ConstructionFails(key)
         THEN Got(0, n, None, FALSE, FALSE)
         ELSE Got(n, n + 1, View(n, som), TRUE, FALSE)
    ELSE Got(c, n, View(c, som), FALSE, FALSE)

\* get_gemini_model without the try/except of lines 34-39: a failed
\* construction leaves the function as an exception.
GetModelUncaught(c, n, key, som, force) ==
    LET c1 == IF force /\ c # 0 THEN 0 ELSE c
    IN  IF c1 = 0
        THEN IF ConstructionFails(key)
             THEN Got(0, n, None, FALSE, TRUE)
             ELSE Got(n, n + 1, View(n, som), TRUE, FALSE)
        ELSE Got(c1, n, View(c1, som), FALSE, FALSE)

\* Lines 28-43.
GetGeminiModel(c, n, key, som, force) ==
    LET c1 == IF force /\ c # 0 THEN 0 ELSE c                  \* lines 31-32
    IN  IF c1 = 0                                               \* line 33
        THEN IF ConstructionFails(key)                          \* lines 34-36
             THEN Got(0, n, None, FALSE, FALSE)                 \* lines 37-39
             ELSE Got(n, n + 1, View(n, som), TRUE, FALSE)      \* lines 36, 40-43
        ELSE Got(c1, n, View(c1, som), FALSE, FALSE)            \* lines 40-43

\* One get_gemini_model call as the log of a handler records it.
GetEntry(c, key, som, force, g) ==
    [before |-> c, apiKey |-> key, schema |-> som, force |-> force,
     model |-> g.model, after |-> g.cache, constructed |-> g.constructed,
     raised |-> g.raised]

(***************************************************************************)
(* invoke_model_with_retry                                                 *)
(***************************************************************************)
\* What a successful handle.invoke returns: a raw handle returns a message with
\* .content; a schema-bound handle returns an instance of its schema, or
\* something else when valid is false (the callers test isinstance).
Reply(handle, topics, content, valid) ==
    IF handle.schema = "None"
    THEN [type |-> "AIMessage", topics |-> <<>>, content |-> content]
    ELSE IF valid
    THEN [type |-> handle.schema, topics |-> topics, content |-> <<>>]
    ELSE [type |-> "other", topics |-> <<>>, content |-> <<>>]

\* Line 50: model.pydantic_schema if hasattr(model, 'pydantic_schema') else None.
StructuredSchema(model, hasAttr) == IF hasAttr THEN model.schema ELSE "None"

\* Everything the outside world decides during one handler: the credential
\* configuration, the fate of the first and of the retry send, whether the
\* failed handle carries a pydantic_schema attribute, and what the model replies.
TopicLists ==
    { <<>>,
      <<[name |-> "Kinematics", slug |-> "kinematics"]>>,
      <<[name |-> "Kinematics", slug |-> "kinematics"],
        [name |-> "Optics", slug |-> "optics"]>> }

\* The worlds of a handler.  When the first send succeeds there is no retry,
\* so the retry's fate and the attribute are not drawn; a raw handle has no
\* schema to carry or to validate against, and answers with text.
Worlds(configs, attrs, valids, topicLists, contents) ==
    [config : configs, ok1 : {TRUE}, ok2 : {TRUE}, hasAttr : {FALSE},
     valid : valids, topics : topicLists, content : contents]
    \cup
    [config : configs, ok1 : {FALSE}, ok2 : BOOLEAN, hasAttr : attrs,
     valid : valids, topics : topicLists, content : contents]

StructuredWorlds(topicLists) ==
    Worlds(SomeConfigurations, BOOLEAN, BOOLEAN, topicLists, { <<>> })

RawWorlds(contents) ==
    Worlds(SomeConfigurations, {FALSE}, {TRUE}, { <<>> }, contents)

\* What one call of invoke_model_with_retry comes to: the cache and the
\* identity counter afterwards, "ok" with the response or "raised" with the
\* error, the sends made in order (handle, prompt, whether it succeeded) and
\* the get_gemini_model calls made.
Send(handle, prompt, ok) == [handle |-> handle, prompt |-> prompt, ok |-> ok]

Returned(g, response, sends, gets) ==
    [cache |-> g.cache, nextId |-> g.nextId, outcome |-> "ok", error |-> NoError,
     response |-> response, sends |-> sends, gets |-> gets]

Raised(g, error, sends, gets) ==
    [cache |-> g.cache, nextId |-> g.nextId, outcome |-> "raised", error |-> error,
     response |-> NoResponse, sends |-> sends, gets |-> gets]

\* The exceptions a call of invoke_model_with_retry can end with: the one the
\* first send raised (e, line 48) and the one the retry send raised (line 53).
FirstSendError == "exception of the first send"
RetrySendError == "exception of the retry send"

\* invoke_model_with_retry with a retry that is itself retried once.
InvokeRetriesTwice(c, n, key, model, prompt, w) ==
    LET same == [cache |-> c, nextId |-> n]
        som == StructuredSchema(model, w.hasAttr)
        g == GetGeminiModel(c, n, key, som, TRUE)
        gets == <<GetEntry(c, key, som, TRUE, g)>>
    IN  IF w.ok1
        THEN Returned(same, Reply(model, w.topics, w.content, w.valid),
                      <<Send(model, prompt, TRUE)>>, <<>>)
        ELSE IF g.model # None
        THEN IF w.ok2
             THEN Returned(g, Reply(g.model, w.topics, w.content, w.valid),
                           <<Send(model, prompt, FALSE), Send(g.model, prompt, TRUE)>>,
                           gets)
             ELSE Raised(g, RetrySendError,
                         <<Send(model, prompt, FALSE), Send(g.model, prompt, FALSE),
                           Send(g.model, prompt, FALSE)>>,
                         gets)
        ELSE Raised(g, FirstSendError, <<Send(model, prompt, FALSE)>>, gets)

\* invoke_model_with_retry without the test of line 52: the retry is sent to
\* whatever get_gemini_model returned, and None has no invoke.
InvokeWithoutNoneCheck(c, n, key, model, prompt, w) ==
    LET same == [cache |-> c, nextId |-> n]
        som == StructuredSchema(model, w.hasAttr)
        g == GetGeminiModel(c, n, key, som, TRUE)
        gets == <<GetEntry(c, key, som, TRUE, g)>>
    IN  IF w.ok1
        THEN Returned(same, Reply(model, w.topics, w.content, w.valid),
                      <<Send(model, prompt, TRUE)>>, <<>>)
        ELSE IF g.model # None
        THEN IF w.ok2
             THEN Returned(g, Reply(g.model, w.topics, w.content, w.valid),
                           <<Send(model, prompt, FALSE), Send(g.model, prompt, TRUE)>>,
                           gets)
             ELSE Raised(g, RetrySendError,
                         <<Send(model, prompt, FALSE), Send(g.model, prompt, FALSE)>>,
                         gets)
        ELSE Raised(g, "AttributeError: 'NoneType' object has no attribute 'invoke'",
                    <<Send(model, prompt, FALSE)>>, gets)

\* Lines 45-55.
InvokeModelWithRetry(c, n, key, model, prompt, w) ==
    LET same == [cache |-> c, nextId |-> n]
        som == StructuredSchema(model, w.hasAttr)                 \* line 50
        g == GetGeminiModel(c, n, key, som, TRUE)                 \* line 51
        gets == <<GetEntry(c, key, som, TRUE, g)>>
    IN  IF w.ok1                                                  \* line 47
        THEN Returned(same, Reply(model, w.topics, w.content, w.valid),
                      <<Send(model, prompt, TRUE)>>, <<>>)
        ELSE IF g.model # None                                    \* line 52
        THEN IF w.ok2                                             \* line 53
             THEN Returned(g, Reply(g.model, w.topics, w.content, w.valid),
                           <<Send(model, prompt, FALSE), Send(g.model, prompt, TRUE)>>,
                           gets)
             ELSE Raised(g, RetrySendError,
                         <<Send(model, prompt, FALSE), Send(g.model, prompt, FALSE)>>,
                         gets)
        ELSE Raised(g, FirstSendError, <<Send(model, prompt, FALSE)>>, gets)  \* line 55

(***************************************************************************)
(* Direct calls of the provider and of the invoker.                        *)
(***************************************************************************)
\* The handles a caller can hold: any view of any handle built so far.
Handles == { View(h, som) : h \in 1..(nextId - 1), som \in Schemas }

Prompts == { <<"prompt A">>, <<"prompt B">> }

\* A constructed handle takes the next identity; the run is cut off when the
\* identities are used up.
CanConstruct == nextId <= MaxHandles

CallGetModel(environ, secrets, som, force) ==
    LET key == ApiKey(environ, secrets)
        g == GetGeminiModel(cache, nextId, key, som, force)
    IN  /\ CanConstruct
        /\ cache' = g.cache
        /\ nextId' = g.nextId
        /\ call' = [NoCall EXCEPT !.op = "get_gemini_model", !.apiKey = key,
                        !.before = cache, !.model = g.model,
                        !.gets = <<GetEntry(cache, key, som, force, g)>>]
        /\ UNCHANGED <<disk, reply>>

CallInvoke(model, prompt, w) ==
    LET key == ApiKey(w.config.environ, w.config.secrets)
        r == InvokeModelWithRetry(cache, nextId, key, model, prompt, w)
    IN  /\ CanConstruct
        /\ cache' = r.cache
        /\ nextId' = r.nextId
        /\ call' = [NoCall EXCEPT !.op = "invoke_model_with_retry", !.apiKey = key,
                        !.before = cache, !.model = model, !.args = prompt,
                        !.outcome = r.outcome, !.error = r.error,
                        !.sends = r.sends, !.gets = r.gets,
                        !.response = r.response]
        /\ UNCHANGED <<disk, reply>>

(***************************************************************************)
(* The subjects/ tree.                                                     *)
(***************************************************************************)
Subjects == {"Physics"}
Modules == {"Mechanics"}
TopicNames == {"Kinematics", "Optics"}
Syllabi == { <<"syllabus text">> }
SavedContents == { <<"generated content">> }

\* content_type strings, character by character: the three the generated
\* module app passes are "markdown", "graphviz" and "html"; the function takes
\* any string, and "xhtml" stands for one that contains another.
Html == <<"h", "t", "m", "l">>
Xhtml == <<"x", "h", "t", "m", "l">>
ContentTypes == {Html, Xhtml}

\* A text file: absent, or present with its text (a sequence of tokens).
Absent == [exists |-> FALSE, text |-> <<>>]
File(text) == [exists |-> TRUE, text |-> text]

\* subject_context.txt as configparser holds it: which sections it has, the
\* [subject] context value and the [saved_content] options (topic -> ledger).
NoContext ==
    [exists |-> FALSE, hasSubject |-> FALSE, context |-> <<>>,
     hasSaved |-> FALSE, saved |-> <<>>]

\* module_context.txt: the [topics] options (slug -> name) when the section is there.
NoRecord == [exists |-> FALSE, hasTopics |-> FALSE, topics |-> <<>>]

NoModule == [exists |-> FALSE, record |-> NoRecord, app |-> FALSE, syllabus |-> Absent]

NoSubject ==
    [exists |-> FALSE, context |-> NoContext, index |-> Absent, style |-> Absent,
     script |-> Absent, webdev |-> FALSE, modules |-> [m \in Modules |-> NoModule]]

\* Line 74: the page initialize_subject writes, cut into tokens around the
\* marker <div id="content"> that update_web_folio searches for.
Marker == "<div id=\"content\">"
IndexTemplate ==
    << "<html><head><link rel=\"stylesheet\" href=\"style.css\"></head><body><h1>My Web-Folio</h1>",
       Marker,
       "</div><script src=\"script.js\"></script></body></html>" >>
StyleTemplate == << "body { font-family: sans-serif; }" >>
ScriptTemplate == << "console.log('Web-Folio loaded');" >>

\* Lines 65-70: the context record of a new subject.
NewContext(subject_name) ==
    [exists |-> TRUE, hasSubject |-> TRUE,
     context |-> <<"The study of ", subject_name, ".">>,
     hasSaved |-> TRUE, saved |-> <<>>]

\* initialize_subject without the exists() tests of lines 64, 73, 75 and 77.
InitializeSubjectDirOverwrites(dir, subject_name) ==
    [dir EXCEPT
        !.exists = TRUE,
        !.context = NewContext(subject_name),
        !.index = File(IndexTemplate),
        !.style = File(StyleTemplate),
        !.script = File(ScriptTemplate),
        !.webdev = TRUE]

\* Lines 59-80 (with create_web_dev_app, lines 82-104) on one subject directory.
InitializeSubjectDir(dir, subject_name) ==
    [dir EXCEPT
        !.exists = TRUE,                                                    \* line 61
        !.context = IF dir.context.exists THEN @ ELSE NewContext(subject_name),  \* line 64
        !.index = IF dir.index.exists THEN @ ELSE File(IndexTemplate),      \* line 73
        !.style = IF dir.style.exists THEN @ ELSE File(StyleTemplate),      \* line 75
        !.script = IF dir.script.exists THEN @ ELSE File(ScriptTemplate),   \* line 77
        !.webdev = TRUE]                                                    \* line 80

(***************************************************************************)
(* Strings: Python's in,     str.replace and the comma-joined ledger.        *)
(***************************************************************************)
\* sub in s, for strings: sub occurs in s as a contiguous run.
IsSubstring(sub, s) ==
    \E i \in 0..(Len(s) - Len(sub)) :
        \A k \in 1..Len(sub) : s[i + k] = sub[k]

\* Lines 229-232 on the ledger value of one topic.
NewSavedTypes(saved_types, content_type) ==
    IF ~IsSubstring(content_type, saved_types)                              \* line 230
    THEN saved_types \o (IF saved_types # <<>> THEN <<",">> ELSE <<>>) \o content_type
    ELSE saved_types

\* config.get('saved_content', topic_name, fallback="").
SavedTypes(context, topic_name) ==
    IF context.hasSaved /\ topic_name \in DOMAIN context.saved
    THEN context.saved[topic_name]
    ELSE <<>>

\* Lines 224-235: read the record, add the section when missing, set the
\* option when the content_type is not found in it, write the record back.
RecordContentType(context, topic_name, content_type) ==
    LET saved_types == SavedTypes(context, topic_name)
        new_types == NewSavedTypes(saved_types, content_type)
    IN  [context EXCEPT
            !.exists = TRUE,
            !.hasSaved = TRUE,
            !.saved = IF new_types # saved_types
                      THEN (topic_name :> new_types) @@ context.saved
                      ELSE context.saved]

\* Line 221: existing_html.replace(marker, marker + "\n" + html_content), on
\* tokens: every marker token of the page is followed by the fragment.
RECURSIVE ReplaceMarker(_, _)
ReplaceMarker(existing_html, html_content) ==
    IF existing_html = <<>> THEN <<>>
    ELSE (IF Head(existing_html) = Marker
          THEN <<Marker, "\n">> \o html_content
          ELSE <<Head(existing_html)>>)
         \o ReplaceMarker(Tail(existing_html), html_content)

\* What the model may answer when asked to format content: plain markup, or
\* markup that itself opens a <div id="content">.
Fragments == { <<"<p>section</p>">>, <<Marker>> }

(***************************************************************************)
(* The store's handlers.                                                   *)
(***************************************************************************)
InitializeSubject(subject_name) ==
    /\ disk' = [disk EXCEPT ![subject_name] = InitializeSubjectDir(@, subject_name)]
    /\ call' = [NoCall EXCEPT !.op = "initialize_subject", !.args = <<subject_name>>]
    /\ UNCHANGED <<cache, nextId, reply>>

\* Line 118: {topic.slug: topic.name for topic in response.topics}.
TopicsOf(topics) ==
    [slug \in { topics[i].slug : i \in 1..Len(topics) } |->
        (CHOOSE t \in { topics[i] : i \in 1..Len(topics) } : t.slug = slug).name]

\* initialize_module writing the record only for a non-empty topic list.
ModuleRecordSkipsEmpty(response) ==
    IF response.topics = <<>>
    THEN NoRecord
    ELSE [exists |-> TRUE, hasTopics |-> TRUE, topics |-> TopicsOf(response.topics)]

\* Lines 116-126: the module record written for a ModuleTopics response.
ModuleRecord(response) ==
    [exists |-> TRUE, hasTopics |-> TRUE, topics |-> TopicsOf(response.topics)]

\* Lines 106-206.  The result: the disk, the cache and the identity counter
\* afterwards, the outcome, the handle obtained and the extraction's response.
InitializeModuleResult(d, c, n, subject_name, module_name, syllabus_text, w) ==
    LET key == ApiKey(w.config.environ, w.config.secrets)
        d1 == [d EXCEPT ![subject_name] =
                  [InitializeSubjectDir(@, subject_name) EXCEPT                \* line 107
                      !.modules[module_name].exists = TRUE]]                   \* line 109
        g == GetGeminiModel(c, n, key, "ModuleTopics", FALSE)                  \* line 111
        prompt == <<"Parse the syllabus for ", module_name>> \o syllabus_text  \* line 112
        r == InvokeModelWithRetry(g.cache, g.nextId, key, g.model, prompt, w)  \* line 114
        written(record) ==                                                     \* lines 204-205
            [d1 EXCEPT ![subject_name].modules[module_name] =
                [@ EXCEPT !.record = record, !.app = TRUE,
                          !.syllabus = File(syllabus_text)]]
    IN  IF g.model = None                                                      \* line 113
        THEN [disk |-> written(d1[subject_name].modules[module_name].record),
              cache |-> g.cache, nextId |-> g.nextId, outcome |-> "ok",
              error |-> NoError, model |-> g.model, response |-> NoResponse]
        ELSE IF r.outcome = "raised"
        THEN [disk |-> d1, cache |-> r.cache, nextId |-> r.nextId,
              outcome |-> "raised", error |-> r.error, model |-> g.model,
              response |-> NoResponse]
        ELSE IF r.response.type = "ModuleTopics"                               \* line 115
        THEN [disk |-> written(ModuleRecord(r.response)),
              cache |-> r.cache, nextId |-> r.nextId, outcome |-> "ok",
              error |-> NoError, model |-> g.model, response |-> r.response]
        ELSE [disk |-> d1, cache |-> r.cache, nextId |-> r.nextId,            \* lines 128-129
              outcome |-> "ok", error |-> NoError, model |-> g.model,
              response |-> r.response]

InitializeModule(subject_name, module_name, syllabus_text, w) ==
    LET r == InitializeModuleResult(disk, cache, nextId, subject_name, module_name,
                                    syllabus_text, w)
    IN  /\ CanConstruct
        /\ disk' = r.disk
        /\ cache' = r.cache
        /\ nextId' = r.nextId
        /\ call' = [NoCall EXCEPT !.op = "initialize_module",
                        !.args = <<subject_name, module_name>>,
                        !.outcome = r.outcome, !.error = r.error,
                        !.model = r.model, !.response = r.response]
        /\ UNCHANGED reply

\* Lines 208-235.  open(context_path, "w") raises when the subject directory
\* does not exist; index.html is rewritten only when it exists.
UpdateWebFolioResult(d, c, n, subject_name, topic_name, content, content_type, w) ==
    LET key == ApiKey(w.config.environ, w.config.secrets)
        dir == d[subject_name]
        g == GetGeminiModel(c, n, key, "None", FALSE)                          \* line 213
        prompt == <<"Format the following ">> \o content_type
                    \o <<topic_name>> \o content                               \* line 214
        r == InvokeModelWithRetry(g.cache, g.nextId, key, g.model, prompt, w)  \* line 216
        html_content == r.response.content                                     \* line 217
        spliced == IF g.model # None /\ dir.index.exists                       \* lines 215, 219
                   THEN File(ReplaceMarker(dir.index.text, html_content))
                   ELSE dir.index
        recorded == [dir EXCEPT
                        !.index = spliced,
                        !.context = RecordContentType(@, topic_name, content_type)]
    IN  IF g.model # None /\ r.outcome = "raised"
        THEN [disk |-> d, cache |-> r.cache, nextId |-> r.nextId,
              outcome |-> "raised", error |-> r.error, model |-> g.model,
              response |-> NoResponse]
        ELSE LET c1 == IF g.model # None THEN r.cache ELSE g.cache
                 n1 == IF g.model # None THEN r.nextId ELSE g.nextId
                 response == IF g.model # None THEN r.response ELSE NoResponse
             IN  IF ~dir.exists                                                \* line 234
                 THEN [disk |-> d, cache |-> c1, nextId |-> n1,
                       outcome |-> "raised", error |-> "FileNotFoundError",
                       model |-> g.model, response |-> response]
                 ELSE [disk |-> [d EXCEPT ![subject_name] = recorded],
                       cache |-> c1, nextId |-> n1, outcome |-> "ok",
                       error |-> NoError, model |-> g.model,
                       response |-> response]

UpdateWebFolio(subject_name, topic_name, content, content_type, w) ==
    LET r == UpdateWebFolioResult(disk, cache, nextId, subject_name, topic_name,
                                  content, content_type, w)
    IN  /\ CanConstruct
        /\ Len(r.disk[subject_name].index.text) <= MaxIndexLen
        /\ disk' = r.disk
        /\ cache' = r.cache
        /\ nextId' = r.nextId
        /\ call' = [NoCall EXCEPT !.op = "update_web_folio",
                        !.args = <<subject_name, topic_name>>,
                        !.text = content_type,
                        !.outcome = r.outcome, !.error = r.error,
                        !.model = r.model, !.response = r.response]
        /\ UNCHANGED reply

\* Lines 237-261.  Line 259 evaluates {{}} - a set holding a dict - when the
\* record has no [topics] section, which raises TypeError.
LoadSubjectStructureResult(d) ==
    LET dirs == { s \in Subjects : d[s].exists }                               \* lines 242-243
        listed(s) == { m \in Modules : /\ d[s].modules[m].exists               \* line 253
                                       /\ d[s].modules[m].record.exists }      \* line 256
        raises == \E s \in dirs : \E m \in listed(s) :
                      ~d[s].modules[m].record.hasTopics                        \* line 259
    IN  IF raises
        THEN [outcome |-> "raised", error |-> "TypeError", structure |-> <<>>]
        ELSE [outcome |-> "ok", error |-> NoError,
              structure |->
                [s \in dirs |->
                    [context |-> IF d[s].context.exists /\ d[s].context.hasSubject
                                 THEN d[s].context.context ELSE <<>>,          \* lines 247-251
                     modules |-> [m \in listed(s) |->
                                    [topics |-> d[s].modules[m].record.topics]]]]]

LoadSubjectStructure ==
    LET r == LoadSubjectStructureResult(disk)
    IN  /\ call' = [NoCall EXCEPT !.op = "load_subject_structure",
                        !.outcome = r.outcome, !.error = r.error,
                        !.structure = r.structure]
        /\ UNCHANGED <<cache, nextId, disk, reply>>

(***************************************************************************)
(* The generators.                                                         *)
(***************************************************************************)
\* A model reply as generate_visual_map's pattern sees it, in tokens: a run of
\* three backquotes, the tag text "dot", other text, white space.
Fence == "[fence]"
DotTag == "dot"
Space == " "
ReplyTokens == {Fence, DotTag, "a -> b;", Space}

RECURSIVE SeqsUpTo(_, _)
SeqsUpTo(S, n) ==
    IF n = 0 THEN { <<>> }
    ELSE LET shorter == SeqsUpTo(S, n - 1)
         IN  shorter \cup { Append(q, x) : q \in { p \in shorter : Len(p) = n - 1 }, x \in S }

Replies == SeqsUpTo(ReplyTokens, MaxReplyLen)

\* str.strip(): white space is dropped at both ends.
RECURSIVE LStrip(_)
LStrip(s) == IF s # <<>> /\ Head(s) = Space THEN LStrip(Tail(s)) ELSE s

RECURSIVE RStrip(_)
RStrip(s) ==
    IF s # <<>> /\ s[Len(s)] = Space THEN RStrip(SubSeq(s, 1, Len(s) - 1)) ELSE s

Strip(s) == RStrip(LStrip(s))

\* Where a fence followed by the tag occurs in the reply, and where a fence
\* occurs after the tag at position i + 1.
Openings(content) ==
    { i \in 1..(Len(content) - 1) : content[i] = Fence /\ content[i + 1] = DotTag }
Closings(content, i) == { j \in (i + 2)..Len(content) : content[j] = Fence }

Min(S) == CHOOSE x \in S : \A y \in S : x <= y
Max(S) == CHOOSE x \in S : \A y \in S : x >= y

NoMatch == [matched |-> FALSE, group |-> <<>>]

\* Line 284: re.search of fence, "dot", (.*), fence with re.DOTALL.  The search
\* takes the leftmost fence followed by the tag; (.*) is greedy, so the group
\* runs to the last fence of the reply.
DotSearch(content) ==
    LET opens == Openings(content)
        i == Min(opens)
    IN  IF opens = {} \/ Closings(content, i) = {}
        THEN NoMatch
        ELSE [matched |-> TRUE,
              group |-> SubSeq(content, i + 2, Max(Closings(content, i)) - 1)]

FallbackMap == << "digraph G { error[label=\"Failed to generate map\"]; }" >>
ModelNotAvailable == << "Error: AI model not available." >>

\* A generator that asks a raw handle for text (lines 265-277 and 298-304), or
\* a schema-bound one for an object (lines 289-296): the handle is fetched,
\* the prompt is sent with one retry, and an exception of the send propagates.
Asked(c, n, som, prompt, w) ==
    LET key == ApiKey(w.config.environ, w.config.secrets)
        g == GetGeminiModel(c, n, key, som, FALSE)
        r == InvokeModelWithRetry(g.cache, g.nextId, key, g.model, prompt, w)
    IN  IF g.model = None
        THEN [cache |-> g.cache, nextId |-> g.nextId, outcome |-> "ok",
              error |-> NoError, model |-> g.model, asked |-> FALSE,
              response |-> NoResponse, sends |-> <<>>,
              gets |-> <<GetEntry(c, key, som, FALSE, g)>>]
        ELSE [cache |-> r.cache, nextId |-> r.nextId, outcome |-> r.outcome,
              error |-> r.error, model |-> g.model, asked |-> TRUE,
              response |-> r.response, sends |-> r.sends,
              gets |-> <<GetEntry(c, key, som, FALSE, g)>> \o r.gets]

Generated(op, topic, a, text) ==
    /\ CanConstruct
    /\ cache' = a.cache
    /\ nextId' = a.nextId
    /\ call' = [NoCall EXCEPT !.op = op, !.args = <<topic>>,
                    !.outcome = a.outcome, !.error = a.error, !.model = a.model,
                    !.sends = a.sends, !.gets = a.gets, !.response = a.response,
                    !.text = IF a.outcome = "ok" THEN text ELSE <<>>]
    /\ UNCHANGED <<disk, reply>>

\* Lines 265-277.
GenerateTopicExplanation(topic_name, w) ==
    LET a == Asked(cache, nextId, "None", <<"Generate explanation for ", topic_name>>, w)
    IN  Generated("generate_topic_explanation", topic_name, a,
                  IF a.asked THEN a.response.content ELSE ModelNotAvailable)

\* Lines 298-304.
GenerateMnemonics(topic_name, w) ==
    LET a == Asked(cache, nextId, "None", <<"Generate mnemonics for ", topic_name>>, w)
    IN  Generated("generate_mnemonics", topic_name, a,
                  IF a.asked THEN a.response.content ELSE ModelNotAvailable)

\* Lines 289-296: the response when it is a GeneratedCode, else None (text
\* "None" here).
GenerateInteractiveQuiz(topic_name, w) ==
    LET a == Asked(cache, nextId, "GeneratedCode", <<"Create a quiz for ", topic_name>>, w)
    IN  Generated("generate_interactive_quiz", topic_name, a,
                  IF a.asked /\ a.response.type = "GeneratedCode"
                  THEN <<"GeneratedCode">> ELSE <<"None">>)

\* Lines 279-287.
VisualMap(a) ==
    IF a.asked /\ DotSearch(a.response.content).matched                        \* lines 282, 285
    THEN Strip(DotSearch(a.response.content).group)                            \* line 286
    ELSE FallbackMap                                                           \* line 287

GenerateVisualMap(topic_context, w) ==
    LET a == Asked(cache, nextId, "None", <<"Generate a Graphviz DOT string for ", topic_context>>, w)
    IN  Generated("generate_visual_map", topic_context, a, VisualMap(a))

(***************************************************************************)
(* Specifications.                                                         *)
(***************************************************************************)
Init ==
    /\ cache = 0
    /\ nextId = 1
    /\ disk = [s \in Subjects |-> NoSubject]
    /\ call = NoCall
    /\ reply = <<>>

PlainText == { <<"some text">> }

\* The provider, the invoker and the generators of text and objects.
Next ==
    \/ \E cfg \in Configurations, som \in Schemas, force \in BOOLEAN :
          CallGetModel(cfg.environ, cfg.secrets, som, force)
    \/ \E model \in Handles, prompt \in Prompts :
          \E w \in IF model.schema = "None" THEN RawWorlds(PlainText)
                   ELSE StructuredWorlds({ <<>> }) :
              CallInvoke(model, prompt, w)
    \/ \E t \in TopicNames, w \in RawWorlds(PlainText) : GenerateTopicExplanation(t, w)
    \/ \E t \in TopicNames, w \in RawWorlds(PlainText) : GenerateMnemonics(t, w)
    \/ \E t \in TopicNames, w \in StructuredWorlds({ <<>> }) : GenerateInteractiveQuiz(t, w)

Spec == Init /\ [][Next]_vars

\* The concept-map generator, for every reply of up to MaxReplyLen tokens the
\* model may give.
InitMap ==
    /\ cache = 0
    /\ nextId = 1
    /\ disk = [s \in Subjects |-> NoSubject]
    /\ call = NoCall
    /\ reply \in Replies

NextMap ==
    \E t \in TopicNames, w \in RawWorlds({reply}) : GenerateVisualMap(t, w)

SpecMap == InitMap /\ [][NextMap]_vars

\* The web folio: subjects and the content saved into them.
NextFolio ==
    \/ \E s \in Subjects : InitializeSubject(s)
    \/ \E s \in Subjects, t \in TopicNames, c \in SavedContents, ct \in ContentTypes,
          w \in RawWorlds(Fragments) :
          UpdateWebFolio(s, t, c, ct, w)

SpecFolio == Init /\ [][NextFolio]_vars

\* The store: subjects, modules, content saved for one topic, and the walk
\* over the tree.
NextStore ==
    \/ \E s \in Subjects : InitializeSubject(s)
    \/ \E s \in Subjects, m \in Modules, syl \in Syllabi, w \in StructuredWorlds(TopicLists) :
          InitializeModule(s, m, syl, w)
    \/ \E s \in Subjects, c \in SavedContents, ct \in ContentTypes,
          w \in RawWorlds({ <<"<p>section</p>">> }) :
          UpdateWebFolio(s, "Kinematics", c, ct, w)
    \/ LoadSubjectStructure

SpecStore == Init /\ [][NextStore]_vars

(***************************************************************************)
(* Properties of the provider and the invoker, checked under Spec.         *)
(***************************************************************************)
\* The get_gemini_model calls of the last handler.
Gets == { call.gets[i] : i \in 1..Len(call.gets) }

\* The last handler sent a prompt and its first send failed.
FirstSendFailed == call.sends # <<>> /\ ~call.sends[1].ok

\* C1: one call of invoke_model_with_retry sends at most twice; a second send
\* happens only after the first one failed, and nothing is sent after a failed
\* retry.
C1_AtMostTwoSends ==
    /\ Len(call.sends) <= 2
    /\ \A i \in 2..Len(call.sends) : ~call.sends[i - 1].ok

\* C1 witness: a direct call whose first send and retry send both failed.
C1_RetryFailed ==
    /\ call.op = "invoke_model_with_retry"
    /\ Len(call.sends) = 2
    /\ ~call.sends[1].ok /\ ~call.sends[2].ok

\* C2: when the first send fails and the forced reinitialisation returns None,
\* the call raises the exception of the first send and sends nothing more.
C2_OriginalFailureSurfaces ==
    (FirstSendFailed /\ \E e \in Gets : e.force /\ e.model = None)
        => /\ call.outcome = "raised"
           /\ call.error = FirstSendError
           /\ Len(call.sends) = 1

\* C2 witness: a direct call on a schema-bound handle whose first send failed
\* and whose reinitialisation found no credential.
C2_ReinitUnobtainable ==
    /\ call.op = "invoke_model_with_retry"
    /\ FirstSendFailed
    /\ call.model.schema # "None"
    /\ \E e \in Gets : e.force /\ e.model = None /\ e.before # 0

\* C3 as stated: without a credential get_gemini_model returns None and does
\* not raise, whatever the schema, force_reinit and the cache before the call.
C3_NoneWithoutCredential ==
    \A e \in Gets : e.apiKey # "key" => (e.model = None /\ ~e.raised)

\* C3 as amended: without a credential get_gemini_model never raises; it
\* returns None whenever it has to build a handle (the cache is empty or
\* force_reinit is set), and with a handle cached and force_reinit unset it
\* returns that handle, bound to the schema asked for.
C3_NoneWhenItMustConstruct ==
    \A e \in Gets :
        e.apiKey # "key" =>
            /\ ~e.raised
            /\ (e.before = 0 \/ e.force) => (e.model = None /\ e.after = 0)
            /\ (e.before # 0 /\ ~e.force) => e.model = View(e.before, e.schema)

\* C3 witness: a forced call for a schema-bound handle, made without a
\* credential while a handle was cached, has returned None.
C3_ForcedWithoutCredential ==
    /\ call.op = "get_gemini_model"
    /\ \E e \in Gets :
          /\ e.apiKey # "key" /\ e.force /\ e.before # 0
          /\ e.schema # "None" /\ e.model = None

\* C9: when the first send fails, a handle is fetched again with
\* force_reinit set and the schema the failed handle was bound to, and the
\* same prompt goes to that handle.
C9_RetryKeepsSchemaAndPrompt ==
    FirstSendFailed =>
        \E e \in Gets :
            /\ e.force
            /\ e.schema = call.sends[1].handle.schema
            /\ Len(call.sends) >= 2 =>
                  /\ call.sends[2].handle = e.model
                  /\ call.sends[2].handle.schema = call.sends[1].handle.schema
                  /\ call.sends[2].prompt = call.sends[1].prompt

\* What C10 says of one get_gemini_model call.
CacheDiscipline(e) ==
    /\ e.force /\ e.before # 0 => e.model.id # e.before
    /\ e.force /\ ~e.constructed => (e.model = None /\ e.after = 0)
    /\ ~e.force /\ e.before # 0 =>
          /\ ~e.constructed
          /\ e.after = e.before
          /\ e.model = View(e.before, e.schema)
    /\ e.model # None => e.model.id = e.after

\* The cache goes from c to c2 through the get_gemini_model calls gets, and
\* through nothing else.
WrittenOnlyBy(gets, c, c2) ==
    IF gets = <<>> THEN c2 = c
    ELSE /\ gets[1].before = c
         /\ \A i \in 2..Len(gets) : gets[i].before = gets[i - 1].after
         /\ gets[Len(gets)].after = c2

\* C10: the cache is one slot, holding nothing or one handle built earlier; a
\* handler changes it only through its get_gemini_model calls; a forced call
\* never returns the handle cached before it and leaves the cache empty when
\* construction fails; an unforced call with a handle cached builds nothing
\* and returns that handle, bound to the schema asked for.
C10_CacheWrittenByGetModel ==
    [][ /\ cache' \in 0..(nextId' - 1)
        /\ WrittenOnlyBy(call'.gets, cache, cache')
        /\ \A i \in 1..Len(call'.gets) : CacheDiscipline(call'.gets[i])
        /\ nextId' - nextId =
              Cardinality({ i \in 1..Len(call'.gets) : call'.gets[i].constructed })
      ]_vars

\* C10 witness: a forced call has replaced a cached handle by a new one.
C10_ForcedReplaced ==
    \E e \in Gets : e.force /\ e.before # 0 /\ e.constructed /\ cache = e.after

(***************************************************************************)
(* Properties of the store, checked under SpecFolio and SpecStore.         *)
(***************************************************************************)
\* The parts of a comma-joined string.
RECURSIVE Split(_)
Split(s) ==
    LET commas == { i \in 1..Len(s) : s[i] = "," }
    IN  IF commas = {} THEN <<s>>
        ELSE <<SubSeq(s, 1, Min(commas) - 1)>>
             \o Split(SubSeq(s, Min(commas) + 1, Len(s)))

\* The content types the ledger of a subject lists for a topic, as read back
\* from the persisted context record.
Ledger(d, subject_name, topic_name) ==
    LET saved_types == SavedTypes(d[subject_name].context, topic_name)
    IN  IF saved_types = <<>> THEN <<>> ELSE Split(saved_types)

Occurrences(x, parts) == Cardinality({ i \in 1..Len(parts) : parts[i] = x })

\* C4: after an update_web_folio call that returned normally, the ledger of
\* its topic lists its content_type exactly once, and every content type any
\* topic's ledger listed before the call is still listed, exactly once.
C4_LedgerIsADeduplicatedSet ==
    [][ (call'.op = "update_web_folio" /\ call'.outcome = "ok") =>
            LET s == call'.args[1]
                t == call'.args[2]
            IN  /\ Occurrences(call'.text, Ledger(disk', s, t)) = 1
                /\ \A t2 \in TopicNames :
                      \A i \in 1..Len(Ledger(disk, s, t2)) :
                          Occurrences(Ledger(disk, s, t2)[i], Ledger(disk', s, t2)) = 1
      ]_vars

\* C5: when the extraction returns a ModuleTopics with no topics,
\* initialize_module raises nothing, the module directory exists and the
\* module record has a [topics] section with an empty mapping.
C5_EmptyTopicsRecorded ==
    (/\ call.op = "initialize_module"
     /\ call.response.type = "ModuleTopics"
     /\ call.response.topics = <<>>)
        => LET module == disk[call.args[1]].modules[call.args[2]]
           IN  /\ call.outcome = "ok"
               /\ module.exists
               /\ module.record.exists
               /\ module.record.hasTopics
               /\ DOMAIN module.record.topics = {}

\* C5 witness: initialize_module has returned after an extraction that gave a
\* ModuleTopics with no topics.
C5_ZeroTopicsExtracted ==
    /\ call.op = "initialize_module"
    /\ call.outcome = "ok"
    /\ call.response.type = "ModuleTopics"
    /\ call.response.topics = <<>>

\* C7: initialize_subject, called directly or by initialize_module, on a
\* subject whose directory exists leaves the subject's context record (with
\* its ledger), index.html, style.css and script.js as they were.
C7_ExistingSubjectKept ==
    [][ (/\ call'.op \in {"initialize_subject", "initialize_module"}
         /\ disk[call'.args[1]].exists)
            => LET before == disk[call'.args[1]]
                   after == disk'[call'.args[1]]
               IN  /\ after.context = before.context
                   /\ after.index = before.index
                   /\ after.style = before.style
                   /\ after.script = before.script
      ]_vars

\* C7 witness: initialize_subject has returned for a subject that has content
\* saved in its ledger and spliced into its page.
C7_InitializedAgainWithContent ==
    /\ call.op = "initialize_subject"
    /\ disk[call.args[1]].context.saved # <<>>
    /\ disk[call.args[1]].index.text # IndexTemplate

\* C8: load_subject_structure raises nothing and lists every subject
\* directory, with an empty context when the context record is missing, and
\* under it every module directory, with no topics when the module record or
\* its [topics] section is missing.
C8_LoadListsEveryDirectory ==
    call.op = "load_subject_structure" =>
        /\ call.outcome = "ok"
        /\ \A s \in Subjects :
              disk[s].exists =>
                  /\ s \in DOMAIN call.structure
                  /\ ~disk[s].context.exists => call.structure[s].context = <<>>
                  /\ \A m \in Modules :
                        disk[s].modules[m].exists =>
                            /\ m \in DOMAIN call.structure[s].modules
                            /\ (~disk[s].modules[m].record.exists
                                  \/ ~disk[s].modules[m].record.hasTopics)
                                  => DOMAIN call.structure[s].modules[m].topics = {}

\* The pages that are existing_html with html_content put in once, on a new
\* line directly after one occurrence of the marker, and nothing else changed.
SplicedOnce(existing_html, html_content) ==
    { SubSeq(existing_html, 1, i) \o <<"\n">> \o html_content
          \o SubSeq(existing_html, i + 1, Len(existing_html)) :
        i \in { j \in 1..Len(existing_html) : existing_html[j] = Marker } }

\* C11: every update_web_folio call that returns normally and adds its
\* content_type to the ledger has put the fragment the model formatted into
\* the persisted index.html exactly once, directly after the content marker,
\* with the rest of the page unchanged - after any earlier calls and whether
\* or not a model handle was obtainable.
C11_FragmentSplicedExactlyOnce ==
    [][ (/\ call'.op = "update_web_folio"
         /\ call'.outcome = "ok"
         /\ Ledger(disk', call'.args[1], call'.args[2])
               # Ledger(disk, call'.args[1], call'.args[2]))
          => /\ call'.response.type = "AIMessage"
             /\ disk'[call'.args[1]].index.exists
             /\ disk'[call'.args[1]].index.text
                   \in SplicedOnce(disk[call'.args[1]].index.text,
                                   call'.response.content)
      ]_vars

(***************************************************************************)
(* Properties of the concept-map generator, checked under SpecMap.         *)
(***************************************************************************)
\* The first fenced block tagged "dot" of a reply: from the leftmost fence
\* followed by the tag to the next fence.
FirstDotBlock(content) ==
    LET opens == Openings(content)
        i == Min(opens)
    IN  IF opens = {} \/ Closings(content, i) = {}
        THEN NoMatch
        ELSE [matched |-> TRUE,
              group |-> SubSeq(content, i + 2, Min(Closings(content, i)) - 1)]

\* C6: for every reply, generate_visual_map returns the trimmed contents of
\* the first fenced dot block when the reply has one, and the fallback graph,
\* without raising, when it has none.
C6_FirstBlockOrFallback ==
    (call.op = "generate_visual_map" /\ call.response.type = "AIMessage") =>
        /\ call.outcome = "ok"
        /\ call.text = IF FirstDotBlock(call.response.content).matched
                       THEN Strip(FirstDotBlock(call.response.content).group)
                       ELSE FallbackMap

====
